---- MODULE Spec2Model ----
(***************************************************************************)
(* A model of src/src/index.js, the MAM client: the publisher's channel    *)
(* cursor (init, subscribe, changeMode, create, getRoot), the bundle       *)
(* fragment reassembler (txHashesToMessages), the chain traversal loop     *)
(* (fetch), the single-message lookup (decode, fetchSingle), the ledger    *)
(* submission (attach) and the poll driver (listen).                       *)
(***************************************************************************)
EXTENDS Integers, Sequences, FiniteSets, TLC

VARIABLES
    state,      \* the state object returned by init: subscribed, channel, seed
    ret,        \* what the last API call returned
    op,         \* name of the last API call
    pre,        \* state.channel as it was when the last create was entered
    used,       \* leaf positions (start + index) handed to createMessage, in order
    engine,     \* which Array.prototype.sort the runtime provides
    objs,       \* result of getTransactionObjects(hashes)
    txi,        \* number of objs already mapped through processTx
    bundles,    \* the bundles table of txHashesToMessages
    out,        \* objs.map(processTx) so far: <<bundle, result>>, result <<>> = undefined
    ledger,     \* what Reader.next() yields at each root
    fpc,        \* position of fetch: idle, await, done, failed
    fargs,      \* arguments of the running fetch
    nextRoot,   \* fetch's local nextRoot
    messages,   \* fetch's local messages
    hasMessage, \* fetch's local hasMessage
    fret,       \* what fetch returned
    cbLog,      \* payloads the callback was invoked with, in order
    reads,      \* roots a Reader was asked for, in order
    apc,        \* position of attach: idle, prepare, send, done
    aargs,      \* what attach handed to prepareTransfers and sendTrytes
    aret,       \* how the promise attach returned was settled
    spc,        \* position of fetchSingle: idle, find, objs, gen, loop, done
    sargs,      \* arguments of fetchSingle and the address it looked up
    shashes,    \* hashes, what findTransactions resolved with
    sgen,       \* how the promise of txHashesToMessages(hashes) was settled
    scands,     \* messagesGen, the payloads txHashesToMessages returned
    si,         \* candidates of messagesGen already tried
    sret,       \* how the promise fetchSingle returned was settled
    slog,       \* candidates reported through console.error, in order
    sub,        \* the subscription object handed to listen
    polls,      \* one timer callback per listen call, and where it stands
    pollLog,    \* the fetch calls of the timer callbacks: listener and root
    delivered,  \* the calls of listen's callback: listener and messages
    proc        \* the process that called listen: running, rejected, exited

chanVars == <<state, ret, op, pre, used>>
reasmVars == <<engine, objs, txi, bundles, out>>
fetchVars == <<ledger, fpc, fargs, nextRoot, messages, hasMessage, fret, cbLog, reads>>
attachVars == <<apc, aargs, aret>>
singleVars == <<spc, sargs, shashes, sgen, scands, si, sret, slog>>
listenVars == <<sub, polls, pollLog, delivered, proc>>
vars == <<state, ret, op, pre, used, engine, objs, txi, bundles, out,
          ledger, fpc, fargs, nextRoot, messages, hasMessage, fret, cbLog, reads,
          apc, aargs, aret, spc, sargs, shashes, sgen, scands, si, sret, slog,
          sub, polls, pollLog, delivered, proc>>

----------------------------------------------------------------------------
(* Bounds of the model *)

MaxCreates == 4      \* create calls per behaviour
MaxCount == 2        \* largest count / next_count of the initial tree window
MaxStart == 1        \* largest initial start
MaxTx == 3           \* transaction objects returned by getTransactionObjects
MaxLastIndex == 1    \* largest lastIndex of a bundle
MaxRoot == 2         \* roots 0..MaxRoot may hold a message on the ledger
MaxCands == 2        \* payloads txHashesToMessages hands to fetchSingle
MaxListens == 2      \* listen calls per behaviour

----------------------------------------------------------------------------
(* JavaScript values *)

\* Every value is a record [tag, val]; a string's val is its characters,
\* a tryte string produced by the codec or the hash is an opaque tuple.
Undefined == [tag |-> "undefined", val |-> <<>>]
Null == [tag |-> "null", val |-> <<>>]
Str(s) == [tag |-> "string", val |-> s]
Obj == [tag |-> "object", val |-> <<>>]

\* !x for the values above: null, undefined and the empty string are falsy
Falsy(v) == v.tag \in {"null", "undefined"} \/ (v.tag = "string" /\ v.val = <<>>)

\* String.prototype.padEnd(n, c) on a sequence of characters
PadEnd(s, n, c) == IF Len(s) >= n THEN s ELSE s \o [i \in 1..(n - Len(s)) |-> c]

KeyLen == 81

\* typeof sidekey === 'string' ? sidekey.padEnd(81, '9') : sidekey
PadKey(k) == IF k.tag = "string" THEN Str(PadEnd(k.val, KeyLen, "9")) ELSE k

----------------------------------------------------------------------------
(* The codec bindings and the hash primitive *)

\* Mam.getMamRoot(seed, channel): the merkle root of the tree (start, count)
MamGetRoot(seed, channel) == Str(<<seed, channel.start, channel.count>>)

\* Mam.createMessage(seed, message, side_key, channel)
MamCreateMessage(seed, message, side_key, channel) ==
    [payload   |-> Str(<<message, side_key.tag, channel.start + channel.index>>),
     root      |-> MamGetRoot(seed, channel),
     next_root |-> Str(<<seed, channel.start + channel.count, channel.next_count>>)]

HashRounds == 81

\* converter.trytes(Encryption.hash(rounds, converter.trits(root)))
Hash(rounds, root) == Str(<<"hash", rounds, root.val>>)

----------------------------------------------------------------------------
(* Inputs *)

Seeds == {"SEED"}
Modes == {"public", "private", "restricted", "bogus"}
\* a string of KeyLen + 1 characters
LongKey == [i \in 1..(KeyLen + 1) |-> "Z"]
SideKeys == {Null, Str(<<>>), Str(<<"A", "B", "C">>), Obj}
LoggedSideKeys == SideKeys \cup {Undefined, Str(LongKey)}
Messages == {"M1", "M2"}
SubRoots == {Str(<<"PEER", 0, 1>>)}
ChannelKeys == {Null, Str(<<"K">>)}

DefaultTimeout == 5000
DefaultSecurity == 2

----------------------------------------------------------------------------
(* init, lines 20-41 *)

InitChannel ==
    [side_key   |-> Null,
     mode       |-> "public",
     next_root  |-> Null,
     security   |-> DefaultSecurity,
     start      |-> 0,
     count      |-> 1,
     next_count |-> 1,
     index      |-> 0]

InitState(seed) == [subscribed |-> <<>>, channel |-> InitChannel, seed |-> seed]

----------------------------------------------------------------------------
(* subscribe, lines 48-57 *)

Subscribe(st, channelRoot, channelKey) ==
    [st EXCEPT !.subscribed =
        [r \in (DOMAIN st.subscribed) \cup {channelRoot} |->
            IF r = channelRoot
            THEN [channelKey |-> channelKey,
                  timeout    |-> DefaultTimeout,
                  root       |-> channelRoot,
                  next_root  |-> Null,
                  active     |-> TRUE]
            ELSE st.subscribed[r]]]

(* changeMode, lines 59-73: the state after the call and the value returned *)

\* a changeMode that stores the mode before it looks at the side key
ChangeModeStoresFirst(st, mode, sidekey) ==
    IF mode # "public" /\ mode # "private" /\ mode # "restricted"
    THEN [state |-> st, returned |-> "undefined"]
    ELSE IF mode = "restricted" /\ Falsy(sidekey)
    THEN [state |-> [st EXCEPT !.channel.mode = mode], returned |-> "undefined"]
    ELSE [state |-> [st EXCEPT
                        !.channel.side_key =
                            IF ~Falsy(sidekey) THEN PadKey(sidekey) ELSE @,
                        !.channel.mode = mode],
          returned |-> "state"]

\* a changeMode that stores the side key as it was given
ChangeModeNoPad(st, mode, sidekey) ==
    IF mode # "public" /\ mode # "private" /\ mode # "restricted"
    THEN [state |-> st, returned |-> "undefined"]
    ELSE IF mode = "restricted" /\ Falsy(sidekey)
    THEN [state |-> st, returned |-> "undefined"]
    ELSE [state |-> [st EXCEPT
                        !.channel.side_key =
                            IF ~Falsy(sidekey) THEN sidekey ELSE @,
                        !.channel.mode = mode],
          returned |-> "state"]

\* a changeMode that stores any mode string it is given
ChangeModeAnyMode(st, mode, sidekey) ==
    IF mode = "restricted" /\ Falsy(sidekey)
    THEN [state |-> st, returned |-> "undefined"]
    ELSE [state |-> [st EXCEPT
                        !.channel.side_key =
                            IF ~Falsy(sidekey) THEN PadKey(sidekey) ELSE @,
                        !.channel.mode = mode],
          returned |-> "state"]

\* a changeMode that starts the tree window over
ChangeModeResetsIndex(st, mode, sidekey) ==
    IF mode # "public" /\ mode # "private" /\ mode # "restricted"
    THEN [state |-> st, returned |-> "undefined"]
    ELSE IF mode = "restricted" /\ Falsy(sidekey)
    THEN [state |-> st, returned |-> "undefined"]
    ELSE [state |-> [st EXCEPT
                        !.channel.side_key =
                            IF ~Falsy(sidekey) THEN PadKey(sidekey) ELSE @,
                        !.channel.mode = mode,
                        !.channel.index = 0],
          returned |-> "state"]

ChangeMode(st, mode, sidekey) ==
    IF mode # "public" /\ mode # "private" /\ mode # "restricted"
    THEN [state |-> st, returned |-> "undefined"]
    ELSE IF mode = "restricted" /\ Falsy(sidekey)
    THEN [state |-> st, returned |-> "undefined"]
    ELSE [state |-> [st EXCEPT
                        !.channel.side_key =
                            IF ~Falsy(sidekey) THEN PadKey(sidekey) ELSE @,
                        !.channel.mode = mode],
          returned |-> "state"]

(* create, lines 85-94: the cursor step *)

\* a cursor that tests for exhaustion one leaf late
AdvanceLateWrap(channel) ==
    IF channel.index = channel.count
    THEN [channel EXCEPT !.start = channel.next_count + channel.start,
                         !.index = 0]
    ELSE [channel EXCEPT !.index = channel.index + 1]

\* a cursor that moves start by the size of the tree it leaves
AdvanceByCount(channel) ==
    IF channel.index = channel.count - 1
    THEN [channel EXCEPT !.start = channel.count + channel.start,
                         !.index = 0]
    ELSE [channel EXCEPT !.index = channel.index + 1]

Advance(channel) ==
    IF channel.index = channel.count - 1
    THEN [channel EXCEPT !.start = channel.next_count + channel.start,
                         !.index = 0]
    ELSE [channel EXCEPT !.index = channel.index + 1]

(* create, lines 100-108: the attachment address *)

Address(mode, root) ==
    IF mode # "public" THEN Hash(HashRounds, root) ELSE root

(* create, lines 80-116 *)

\* a create that asks the codec for the message after stepping the cursor
CreateAfterAdvance(st, message) ==
    LET advancedFirst == Advance(st.channel)
        mam == MamCreateMessage(st.seed, message, advancedFirst.side_key,
                                advancedFirst)
        advanced == [advancedFirst EXCEPT !.next_root = mam.next_root]
    IN  [state   |-> [st EXCEPT !.channel = advanced],
         payload |-> mam.payload,
         root    |-> mam.root,
         address |-> Address(advanced.mode, mam.root)]

Create(st, message) ==
    LET channel == st.channel
        mam == MamCreateMessage(st.seed, message, channel.side_key, channel)
        advanced == [Advance(channel) EXCEPT !.next_root = mam.next_root]
    IN  [state   |-> [st EXCEPT !.channel = advanced],
         payload |-> mam.payload,
         root    |-> mam.root,
         address |-> Address(advanced.mode, mam.root)]

(* getRoot, line 119 *)

GetRoot(st) == MamGetRoot(st.seed, st.channel)

----------------------------------------------------------------------------
(* Channel actions *)

DoSubscribe ==
    \E r \in SubRoots, k \in ChannelKeys :
        /\ state' = Subscribe(state, r, k)
        /\ ret' = [returned |-> "state"]
        /\ op' = "subscribe"
        /\ UNCHANGED <<pre, used>>

DoChangeMode ==
    \E m \in Modes, k \in SideKeys :
        LET r == ChangeMode(state, m, k)
        IN  /\ state' = r.state
            /\ ret' = [returned |-> r.returned]
            /\ op' = "changeMode"
            /\ UNCHANGED <<pre, used>>

\* changeMode, with the arguments of the call kept beside what it returned
DoChangeModeLogged ==
    \E m \in Modes, k \in LoggedSideKeys :
        LET r == ChangeMode(state, m, k)
        IN  /\ state' = r.state
            /\ ret' = [returned |-> r.returned, mode |-> m, sidekey |-> k]
            /\ op' = "changeMode"
            /\ UNCHANGED <<pre, used>>

DoCreate ==
    /\ Len(used) < MaxCreates
    /\ \E msg \in Messages :
        LET r == Create(state, msg)
        IN  /\ state' = r.state
            /\ ret' = [returned |-> "create", payload |-> r.payload,
                       root |-> r.root, address |-> r.address]
            /\ op' = "create"
            /\ pre' = state.channel
            /\ used' = Append(used, state.channel.start + state.channel.index)

DoGetRoot ==
    /\ ret' = [returned |-> "root", root |-> GetRoot(state)]
    /\ op' = "getRoot"
    /\ UNCHANGED <<state, pre, used>>

----------------------------------------------------------------------------
(* Reassembler and traversal at rest *)

ReasmIdle ==
    /\ engine = "timsort"
    /\ objs = <<>>
    /\ txi = 0
    /\ bundles = <<>>
    /\ out = <<>>

FetchIdle ==
    /\ ledger = <<>>
    /\ fpc = "idle"
    /\ fargs = <<>>
    /\ nextRoot = 0
    /\ messages = <<>>
    /\ hasMessage = FALSE
    /\ fret = [returned |-> "none"]
    /\ cbLog = <<>>
    /\ reads = <<>>

AttachIdle ==
    /\ apc = "idle"
    /\ aargs = <<>>
    /\ aret = [outcome |-> "pending"]

SingleIdle ==
    /\ spc = "idle"
    /\ sargs = <<>>
    /\ shashes = <<>>
    /\ sgen = [settled |-> "pending"]
    /\ scands = <<>>
    /\ si = 0
    /\ sret = [returned |-> "none"]
    /\ slog = <<>>

ListenIdle ==
    /\ sub = <<>>
    /\ polls = <<>>
    /\ pollLog = <<>>
    /\ delivered = <<>>
    /\ proc = "running"

ChannelFresh ==
    /\ state = InitState("SEED")
    /\ ret = [returned |-> "state"]
    /\ op = "init"
    /\ pre = InitChannel
    /\ used = <<>>

----------------------------------------------------------------------------
(* The publisher's session: init, after which the caller may have set the  *)
(* tree window (start, count, next_count, index) to any valid position.    *)

Init ==
    /\ \E seed \in Seeds, count \in 1..MaxCount, next_count \in 1..MaxCount,
          start \in 0..MaxStart :
        \E index \in 0..(count - 1) :
            state = [InitState(seed) EXCEPT !.channel.start = start,
                                            !.channel.count = count,
                                            !.channel.next_count = next_count,
                                            !.channel.index = index]
    /\ ret = [returned |-> "state"]
    /\ op = "init"
    /\ pre = state.channel
    /\ used = <<>>
    /\ ReasmIdle
    /\ FetchIdle
    /\ AttachIdle
    /\ SingleIdle
    /\ ListenIdle

Next ==
    \/ DoSubscribe /\ UNCHANGED <<reasmVars, fetchVars, attachVars, singleVars, listenVars>>
    \/ DoChangeMode /\ UNCHANGED <<reasmVars, fetchVars, attachVars, singleVars, listenVars>>
    \/ DoCreate /\ UNCHANGED <<reasmVars, fetchVars, attachVars, singleVars, listenVars>>
    \/ DoGetRoot /\ UNCHANGED <<reasmVars, fetchVars, attachVars, singleVars, listenVars>>

Spec == Init /\ [][Next]_vars

(* The session from init on, by changeMode and create calls alone *)

InitMode ==
    /\ \E seed \in Seeds : state = InitState(seed)
    /\ ret = [returned |-> "state"]
    /\ op = "init"
    /\ pre = state.channel
    /\ used = <<>>
    /\ ReasmIdle
    /\ FetchIdle
    /\ AttachIdle
    /\ SingleIdle
    /\ ListenIdle

NextMode ==
    \/ DoChangeModeLogged /\ UNCHANGED <<reasmVars, fetchVars, attachVars, singleVars, listenVars>>
    \/ DoCreate /\ UNCHANGED <<reasmVars, fetchVars, attachVars, singleVars, listenVars>>

SpecMode == InitMode /\ [][NextMode]_vars

----------------------------------------------------------------------------
(* txHashesToMessages, lines 192-222 *)

\* the comparator of line 211, (a, b) => b[0] < a[0]: a boolean, which the
\* sort coerces to a number, true to 1 and false to 0
Cmp(a, b) == IF b[1] < a[1] THEN 1 ELSE 0

Swap(arr, i, j) == [arr EXCEPT ![i] = arr[j], ![j] = arr[i]]

RECURSIVE ReverseRange(_, _, _)
ReverseRange(arr, lo, hi) ==
    IF lo >= hi THEN arr ELSE ReverseRange(Swap(arr, lo, hi), lo + 1, hi - 1)

\* Array.prototype.sort of V8 7.0 and later (TimSort), for arrays shorter
\* than 64: count the run the array starts with, reverse it when strictly
\* descending, then binary-insert the elements that follow it.
RECURSIVE RunEnd(_, _, _)
RunEnd(arr, descending, idx) ==
    IF idx > Len(arr) THEN Len(arr)
    ELSE LET order == Cmp(arr[idx], arr[idx - 1])
         IN  IF (descending /\ order >= 0) \/ (~descending /\ order < 0)
             THEN idx - 1
             ELSE RunEnd(arr, descending, idx + 1)

RECURSIVE BinarySearch(_, _, _, _)
BinarySearch(arr, pivot, left, right) ==
    IF left >= right THEN left
    ELSE LET mid == left + ((right - left) \div 2)
         IN  IF Cmp(pivot, arr[mid]) < 0
             THEN BinarySearch(arr, pivot, left, mid)
             ELSE BinarySearch(arr, pivot, mid + 1, right)

RECURSIVE BinaryInsertionSort(_, _)
BinaryInsertionSort(arr, start) ==
    IF start > Len(arr) THEN arr
    ELSE LET pivot == arr[start]
             left == BinarySearch(arr, pivot, 1, start)
             moved == [p \in 1..Len(arr) |->
                          IF p = left THEN pivot
                          ELSE IF p > left /\ p <= start THEN arr[p - 1]
                          ELSE arr[p]]
         IN  BinaryInsertionSort(moved, start + 1)

TimSort(arr) ==
    IF Len(arr) < 2 THEN arr
    ELSE LET descending == Cmp(arr[2], arr[1]) < 0
             run == RunEnd(arr, descending, 3)
             made == IF descending THEN ReverseRange(arr, 1, run) ELSE arr
         IN  BinaryInsertionSort(made, run + 1)

\* Array.prototype.sort of V8 before 7.0, for arrays of at most 10 elements:
\* insertion sort, an element moving down past each one that compares > 0
RECURSIVE InsertDown(_, _, _)
InsertDown(arr, element, j) ==
    IF j >= 1 /\ Cmp(arr[j], element) > 0
    THEN InsertDown([arr EXCEPT ![j + 1] = arr[j]], element, j - 1)
    ELSE [arr EXCEPT ![j + 1] = element]

RECURSIVE InsertionSort(_, _)
InsertionSort(arr, i) ==
    IF i > Len(arr) THEN arr
    ELSE InsertionSort(InsertDown(arr, arr[i], i - 1), i + 1)

\* l.sort((a, b) => b[0] < a[0]), line 211: the comparator is not a
\* consistent comparison function, so the order is the engine's
Sort(l, eng) == IF eng = "timsort" THEN TimSort(l) ELSE InsertionSort(l, 2)

\* .reduce((acc, n) => acc + n[1], ''), line 212
RECURSIVE Reduce(_, _, _)
Reduce(l, i, acc) ==
    IF i > Len(l) THEN acc ELSE Reduce(l, i + 1, acc \o l[i][2])

\* delete bundles[bundle]
Delete(tbl, bundle) == [b \in (DOMAIN tbl) \ {bundle} |-> tbl[b]]

\* lines 201-205: the table after the fragment is pushed
Push(tbl, txo) ==
    LET frag == <<txo.currentIndex, txo.signatureMessageFragment>>
    IN  IF txo.bundle \in DOMAIN tbl
        THEN [tbl EXCEPT ![txo.bundle] = Append(@, frag)]
        ELSE [b \in (DOMAIN tbl) \cup {txo.bundle} |->
                 IF b = txo.bundle THEN <<frag>> ELSE tbl[b]]

\* line 207: the completion test
Complete(l, maxIdx) == Len(l) = maxIdx + 1

\* processTx, lines 195-214: the table afterwards and the value returned
ProcessTx(tbl, txo, eng) ==
    LET pushed == Push(tbl, txo)
        l == pushed[txo.bundle]
    IN  IF Complete(l, txo.lastIndex)
        THEN [bundles |-> Delete(pushed, txo.bundle),
              defined |-> TRUE,
              payload |-> Reduce(Sort(l, eng), 1, <<>>)]
        ELSE [bundles |-> pushed, defined |-> FALSE, payload |-> <<>>]

\* objs.map(result => processTx(result)) from element i on, lines 219-220
RECURSIVE MapProcessTx(_, _, _, _)
MapProcessTx(tbl, txs, i, eng) ==
    IF i > Len(txs) THEN <<>>
    ELSE LET r == ProcessTx(tbl, txs[i], eng)
         IN  <<[bundle |-> txs[i].bundle, defined |-> r.defined,
                payload |-> r.payload]>>
             \o MapProcessTx(r.bundles, txs, i + 1, eng)

\* .filter(item => item !== undefined), line 221
Filter(mapped) == SelectSeq(mapped, LAMBDA m : m.defined)

(* Inputs of the reassembler *)

Bundles == {"B1", "B2"}
Contents == {<<"A", "B", "C">>, <<"X", "Y", "Z">>}
Engines == {"timsort", "insertion"}

\* the transactions of a ledger on which bundle b has lastIndex li[b]
TxSet(li) ==
    UNION {{[bundle |-> b, signatureMessageFragment |-> c,
             currentIndex |-> i, lastIndex |-> li[b]] :
               i \in 0..li[b], c \in Contents} : b \in Bundles}

RECURSIVE SeqsUpTo(_, _)
SeqsUpTo(S, n) ==
    IF n = 0 THEN {<<>>}
    ELSE LET shorter == SeqsUpTo(S, n - 1)
         IN  shorter \cup {Append(q, x) : q \in shorter, x \in S}

(* Reassembler actions *)

\* getTransactionObjects(hashes) resolves with objs
ReasmCall ==
    /\ objs = <<>>
    /\ txi = 0
    /\ \E li \in [Bundles -> 0..MaxLastIndex] :
         \E txs \in SeqsUpTo(TxSet(li), MaxTx) :
            /\ txs # <<>>
            /\ objs' = txs
    /\ UNCHANGED <<engine, txi, bundles, out>>

\* one element of objs mapped through processTx
ProcessTxStep ==
    /\ txi < Len(objs)
    /\ LET txo == objs[txi + 1]
           r == ProcessTx(bundles, txo, engine)
       IN  /\ bundles' = r.bundles
           /\ out' = Append(out, [bundle   |-> txo.bundle,
                                  defined  |-> r.defined,
                                  payload  |-> r.payload,
                                  recorded |-> Push(bundles, txo)[txo.bundle]])
    /\ txi' = txi + 1
    /\ UNCHANGED <<engine, objs>>

InitReasm ==
    /\ ChannelFresh
    /\ FetchIdle
    /\ AttachIdle
    /\ SingleIdle
    /\ ListenIdle
    /\ engine \in Engines
    /\ objs = <<>>
    /\ txi = 0
    /\ bundles = <<>>
    /\ out = <<>>

NextReasm ==
    \/ ReasmCall /\ UNCHANGED <<chanVars, fetchVars, attachVars, singleVars, listenVars>>
    \/ ProcessTxStep /\ UNCHANGED <<chanVars, fetchVars, attachVars, singleVars, listenVars>>

SpecReasm == InitReasm /\ [][NextReasm]_vars

----------------------------------------------------------------------------
(* fetch, lines 126-157 *)

Roots == 0..MaxRoot

\* the most messages a chain that visits no root twice can hold, plus one
MaxMessages == MaxRoot + 2

\* What reader.next() does at a root: resolves with a message (its payload
\* and the nextRoot it carries), resolves with nothing, or rejects. A root
\* beyond MaxRoot holds nothing.
NoMessage == [kind |-> "none", payload |-> "", nextRoot |-> 0]
Throws == [kind |-> "throw", payload |-> "", nextRoot |-> 0]
PayloadAt == <<"P0", "P1", "P2", "P3", "P4", "P5">>
EntriesAt(r) ==
    {NoMessage, Throws}
        \cup {[kind |-> "msg", payload |-> PayloadAt[r + 1], nextRoot |-> n] :
                 n \in 0..(MaxRoot + 1)}
Ledgers == {l \in [Roots -> UNION {EntriesAt(r) : r \in Roots}] :
               \A r \in Roots : l[r] \in EntriesAt(r)}

ReaderNext(l, root) == IF root \in DOMAIN l THEN l[root] ELSE NoMessage

\* line 130
ReaderMode(selectedMode) == IF selectedMode = "public" THEN "Public" ELSE "Old"

\* a loop body that puts the new payload in front of the earlier ones
LoopBodyPrepend(message, msgs, root, log, callback) ==
    IF message.kind = "msg"
    THEN [hasMessage |-> TRUE,
          nextRoot   |-> message.nextRoot,
          messages   |-> <<message.payload>> \o msgs,
          cbLog      |-> IF callback THEN Append(log, message.payload) ELSE log]
    ELSE [hasMessage |-> FALSE, nextRoot |-> root, messages |-> msgs,
          cbLog |-> log]

\* a loop body that never moves on to the root the message names
LoopBodySameRoot(message, msgs, root, log, callback) ==
    IF message.kind = "msg"
    THEN [hasMessage |-> TRUE,
          nextRoot   |-> root,
          messages   |-> Append(msgs, message.payload),
          cbLog      |-> IF callback THEN Append(log, message.payload) ELSE log]
    ELSE [hasMessage |-> FALSE, nextRoot |-> root, messages |-> msgs,
          cbLog |-> log]

\* a loop body that invokes the callback before and after the push
LoopBodyCallbackTwice(message, msgs, root, log, callback) ==
    IF message.kind = "msg"
    THEN [hasMessage |-> TRUE,
          nextRoot   |-> message.nextRoot,
          messages   |-> Append(msgs, message.payload),
          cbLog      |-> IF callback
                         THEN log \o <<message.payload, message.payload>>
                         ELSE log]
    ELSE [hasMessage |-> FALSE, nextRoot |-> root, messages |-> msgs,
          cbLog |-> log]

\* lines 138-150: the loop body once reader.next() has resolved
LoopBody(message, msgs, root, log, callback) ==
    IF message.kind = "msg"
    THEN [hasMessage |-> TRUE,
          nextRoot   |-> message.nextRoot,
          messages   |-> Append(msgs, message.payload),
          cbLog      |-> IF callback THEN Append(log, message.payload) ELSE log]
    ELSE [hasMessage |-> FALSE, nextRoot |-> root, messages |-> msgs,
          cbLog |-> log]

\* lines 126-132: fetch is called and awaits createContext()
FetchCall ==
    /\ fpc = "idle"
    /\ \E root \in Roots, selectedMode \in {"public", "restricted"},
          callback \in BOOLEAN :
        fargs' = [root |-> root, mode |-> ReaderMode(selectedMode),
                  callback |-> callback]
           /\ nextRoot' = root
    /\ messages' = <<>>
    /\ hasMessage' = FALSE
    /\ fpc' = "ctx"
    /\ UNCHANGED <<ledger, fret, cbLog, reads>>

\* lines 128-137: the context is ready, the first Reader is asked
ContextReady ==
    /\ fpc = "ctx"
    /\ reads' = Append(reads, nextRoot)
    /\ fpc' = "await"
    /\ UNCHANGED <<ledger, fargs, nextRoot, messages, hasMessage, fret, cbLog>>

\* lines 137-151: reader.next() resolves with a message, the loop goes round
\* and the next Reader is asked
ReaderResolvesMessage ==
    /\ fpc = "await"
    /\ Len(messages) < MaxMessages
    /\ ReaderNext(ledger, nextRoot).kind = "msg"
    /\ LET b == LoopBody(ReaderNext(ledger, nextRoot), messages, nextRoot,
                         cbLog, fargs.callback)
       IN  /\ hasMessage' = b.hasMessage
           /\ nextRoot' = b.nextRoot
           /\ messages' = b.messages
           /\ cbLog' = b.cbLog
           /\ reads' = Append(reads, b.nextRoot)
    /\ UNCHANGED <<ledger, fpc, fargs, fret>>

\* lines 137-152: reader.next() resolves with nothing, fetch returns
ReaderResolvesNothing ==
    /\ fpc = "await"
    /\ ReaderNext(ledger, nextRoot).kind = "none"
    /\ LET b == LoopBody(ReaderNext(ledger, nextRoot), messages, nextRoot,
                         cbLog, fargs.callback)
       IN  /\ hasMessage' = b.hasMessage
           /\ nextRoot' = b.nextRoot
           /\ messages' = b.messages
           /\ cbLog' = b.cbLog
           /\ fret' = [returned |-> "result", messages |-> b.messages,
                       nextRoot |-> b.nextRoot]
    /\ fpc' = "done"
    /\ UNCHANGED <<ledger, fargs, reads>>

\* lines 153-154: reader.next() rejects; the catch block returns what
\* console.error returns, which is undefined
ReaderRejects ==
    /\ fpc = "await"
    /\ ReaderNext(ledger, nextRoot).kind = "throw"
    /\ fret' = [returned |-> "undefined"]
    /\ fpc' = "failed"
    /\ UNCHANGED <<ledger, fargs, nextRoot, messages, hasMessage, cbLog, reads>>

InitFetch ==
    /\ ChannelFresh
    /\ ReasmIdle
    /\ AttachIdle
    /\ SingleIdle
    /\ ListenIdle
    /\ ledger \in Ledgers
    /\ fpc = "idle"
    /\ fargs = <<>>
    /\ nextRoot = 0
    /\ messages = <<>>
    /\ hasMessage = FALSE
    /\ fret = [returned |-> "none"]
    /\ cbLog = <<>>
    /\ reads = <<>>

NextFetch ==
    \/ FetchCall /\ UNCHANGED <<chanVars, reasmVars, attachVars, singleVars, listenVars>>
    \/ ContextReady /\ UNCHANGED <<chanVars, reasmVars, attachVars, singleVars, listenVars>>
    \/ ReaderResolvesMessage /\ UNCHANGED <<chanVars, reasmVars, attachVars, singleVars, listenVars>>
    \/ ReaderResolvesNothing /\ UNCHANGED <<chanVars, reasmVars, attachVars, singleVars, listenVars>>
    \/ ReaderRejects /\ UNCHANGED <<chanVars, reasmVars, attachVars, singleVars, listenVars>>

SpecFetch == InitFetch /\ [][NextFetch]_vars

\* every continuation the event loop holds is run, and every reader.next()
\* settles
FairSpecFetch == SpecFetch /\ WF_vars(NextFetch)

----------------------------------------------------------------------------
(* Properties of the reassembler *)

Positions(l) == {l[k][1] : k \in DOMAIN l}

\* l rearranged by p
Arranged(l, p) == [k \in DOMAIN l |-> l[p[k]]]

\* the arrangements of l whose positions never decrease
AscendingArrangements(l) ==
    {Arranged(l, p) : p \in {q \in Permutations(DOMAIN l) :
        \A j, k \in DOMAIN l : j < k => l[q[j]][1] <= l[q[k]][1]}}

\* the payloads a mapped array holds for bundle b
PayloadsOf(mapped, b) ==
    {mapped[k].payload : k \in {j \in DOMAIN mapped :
        mapped[j].bundle = b /\ mapped[j].defined}}

\* txs holds each position 0..lastIndex of bundle b exactly once
IsCompleteBundle(txs, b) ==
    LET mine == SelectSeq(txs, LAMBDA t : t.bundle = b)
    IN  /\ mine # <<>>
        /\ Len(mine) = mine[1].lastIndex + 1
        /\ {mine[k].currentIndex : k \in DOMAIN mine} = 0..mine[1].lastIndex

\* C4: a payload is emitted for a bundle exactly when the number of distinct
\* positions recorded for it equals lastIndex + 1; a repeated position does
\* not count, and a bundle with fewer positions is never emitted.
C4_EmittedIffDistinctPositionsComplete ==
    \A i \in DOMAIN out :
        out[i].defined <=>
            Cardinality(Positions(out[i].recorded)) = objs[i].lastIndex + 1

\* C5: an emitted payload is the concatenation of the bundle's fragments in
\* ascending order of position, and the bundle's buffer entry is removed at
\* the moment of emission.
C5_EmittedIsAscendingConcat ==
    /\ \A i \in DOMAIN out :
          out[i].defined =>
              \E a \in AscendingArrangements(out[i].recorded) :
                  out[i].payload = Reduce(a, 1, <<>>)
    /\ (txi > 0 /\ out[txi].defined) => out[txi].bundle \notin DOMAIN bundles

\* C6: for a complete bundle, every permutation of the arrival order of the
\* transactions yields the same payload for that bundle.
C6_ArrivalOrderIrrelevant ==
    (objs # <<>> /\ txi = Len(objs)) =>
        \A b \in Bundles :
            IsCompleteBundle(objs, b) =>
                \A p \in Permutations(DOMAIN objs) :
                    PayloadsOf(MapProcessTx(<<>>, Arranged(objs, p), 1, engine), b)
                        = PayloadsOf(out, b)

----------------------------------------------------------------------------
(* Properties of the channel cursor *)

\* C1: the leaf positions (start + index) consumed by the publications are
\* pairwise distinct: no one-time leaf is used by two publications.
C1_LeavesUsedOnce ==
    \A i, j \in DOMAIN used : i # j => used[i] # used[j]

\* C2: 0 <= channel.index < channel.count in every state reached by create,
\* changeMode, subscribe and getRoot calls.
C2_IndexWithinCount ==
    /\ 0 <= state.channel.index
    /\ state.channel.index < state.channel.count

\* a second or later create has just stepped the cursor off the last leaf
\* of a tree of several leaves
C2_Witness ==
    /\ op = "create"
    /\ pre.count > 1
    /\ pre.index = pre.count - 1
    /\ state.channel.index = 0
    /\ Len(used) >= 2

\* C3: one create moves the cursor by exactly this rule: from the last leaf
\* (index = count - 1) to start + next_count and index 0, otherwise to
\* index + 1 with start unchanged; count and next_count never change.
C3_CreateAdvanceRule ==
    op = "create" =>
        /\ IF pre.index = pre.count - 1
           THEN /\ state.channel.start = pre.start + pre.next_count
                /\ state.channel.index = 0
           ELSE /\ state.channel.index = pre.index + 1
                /\ state.channel.start = pre.start
        /\ state.channel.count = pre.count
        /\ state.channel.next_count = pre.next_count

\* a create has left an exhausted tree whose size differs from next_count
C3_Witness ==
    /\ op = "create"
    /\ pre.index = pre.count - 1
    /\ pre.count # pre.next_count
    /\ state.channel.start = pre.start + pre.next_count

\* C10: create returns the root of the position that was current before the
\* advance, and an address derived from that root: the root itself when the
\* mode is public, hash(81, root) when it is private or restricted.
C10_CreateReturnsCurrentRoot ==
    op = "create" =>
        /\ ret.root = GetRoot([state EXCEPT !.channel = pre])
        /\ pre.mode = "public" => ret.address = ret.root
        /\ pre.mode \in {"private", "restricted"} =>
               ret.address = Hash(HashRounds, ret.root)

\* a create in a non-public mode after which getRoot gives another root
C10_Witness ==
    /\ op = "create"
    /\ pre.mode \in {"private", "restricted"}
    /\ GetRoot(state) # ret.root
    /\ ret.address # ret.root

----------------------------------------------------------------------------
(* Properties of the chain traversal *)

\* the i-th root of the chain that starts at root r on ledger l
RECURSIVE RootAt(_, _, _)
RootAt(l, r, i) ==
    IF i = 0 THEN r ELSE ReaderNext(l, RootAt(l, r, i - 1)).nextRoot

\* the chain from r holds exactly k messages and then a root with nothing
ChainOfLength(l, r, k) ==
    /\ \A i \in 0..(k - 1) : ReaderNext(l, RootAt(l, r, i)).kind = "msg"
    /\ ReaderNext(l, RootAt(l, r, k)).kind = "none"

\* the chain from r is finite and no read on it fails
FiniteChain(l, r) == \E k \in 0..(MaxRoot + 1) : ChainOfLength(l, r, k)

\* C7: fetch started at the head of a finite chain of k messages returns
\* exactly those k payloads in chain order, and nextRoot is the first root
\* at which no message was found.
C7_FetchReturnsChain ==
    \A k \in 0..(MaxRoot + 1) :
        (fpc = "done" /\ ChainOfLength(ledger, fargs.root, k)) =>
            /\ fret.returned = "result"
            /\ Len(fret.messages) = k
            /\ \A i \in 1..k :
                  fret.messages[i] =
                      ReaderNext(ledger, RootAt(ledger, fargs.root, i - 1)).payload
            /\ fret.nextRoot = RootAt(ledger, fargs.root, k)

\* fetch has returned the three messages of the chain 0 -> 1 -> 2 and the
\* root 3, where nothing was found
C7_Witness ==
    /\ fpc = "done"
    /\ fargs.root = 0
    /\ fret.messages = <<"P0", "P1", "P2">>
    /\ fret.nextRoot = 3

\* C8: when the chain reachable from the start root is finite and every
\* read returns, the traversal loop eventually reaches Done and returns.
C8_FetchTerminates ==
    (fpc = "ctx" /\ FiniteChain(ledger, fargs.root)) ~> (fpc = "done")

\* fetch has returned after going round the loop at least twice
C8_Witness ==
    /\ fpc = "done"
    /\ Len(reads) >= 3
    /\ ~hasMessage

\* C9: when a read fails after j messages have been accumulated, no further
\* read is issued and the value fetch returns carries the error or the j
\* messages accumulated so far.
C9_AbortSurfaced ==
    fpc = "failed" =>
        /\ Len(reads) = Len(messages) + 1
        /\ \/ fret.returned = "error"
           \/ fret.returned = "result" /\ fret.messages = messages

----------------------------------------------------------------------------
(* Properties of changeMode and of the frame of each call *)

\* the calls changeMode is to reject
Rejected(mode, sidekey) ==
    \/ mode \notin {"public", "private", "restricted"}
    \/ mode = "restricted" /\ sidekey.tag \in {"null", "undefined"}
    \/ mode = "restricted" /\ sidekey = Str(<<>>)

\* C11: a rejected changeMode call (a mode that is none of public, private,
\* restricted, or restricted with no side key) reports an error and leaves
\* channel.mode and channel.side_key as they were before the call.
C11_RejectedChangeModeKeepsState ==
    [][(op' = "changeMode" /\ Rejected(ret'.mode, ret'.sidekey)) =>
          /\ ret'.returned = "undefined"
          /\ state'.channel.mode = state.channel.mode
          /\ state'.channel.side_key = state.channel.side_key]_vars

\* changeMode(state, 'restricted', null) was rejected on a private channel
\* that holds a side key
C11_Witness ==
    /\ op = "changeMode"
    /\ ret.returned = "undefined"
    /\ ret.mode = "restricted"
    /\ ret.sidekey = Null
    /\ state.channel.mode = "private"
    /\ state.channel.side_key.tag = "string"

\* the stored key is the supplied one followed only by nines, KeyLen long
PaddedFrom(stored, supplied) ==
    /\ stored.tag = "string"
    /\ Len(stored.val) = KeyLen
    /\ Len(supplied.val) <= KeyLen
    /\ \A i \in 1..KeyLen :
          stored.val[i] = IF i <= Len(supplied.val) THEN supplied.val[i] ELSE "9"

\* C12 as stated: after any accepted changeMode call with a string side key
\* the stored side_key has length 81 and is the supplied key followed only
\* by nines.
C12_StoredKeyPaddedAnyString ==
    (op = "changeMode" /\ ret.returned = "state" /\ ret.sidekey.tag = "string")
        => PaddedFrom(state.channel.side_key, ret.sidekey)

\* C12, amended: after any accepted changeMode call with a non-empty string
\* side key of at most 81 characters the stored side_key has length 81 and
\* is the supplied key followed only by nines.
C12_StoredKeyPadded ==
    (/\ op = "changeMode"
     /\ ret.returned = "state"
     /\ ret.sidekey.tag = "string"
     /\ ret.sidekey.val # <<>>
     /\ Len(ret.sidekey.val) <= KeyLen)
        => PaddedFrom(state.channel.side_key, ret.sidekey)

\* "ABC" was accepted and is stored as "ABC" followed by 78 nines
C12_Witness ==
    /\ op = "changeMode"
    /\ ret.returned = "state"
    /\ ret.sidekey = Str(<<"A", "B", "C">>)
    /\ state.channel.side_key = Str(<<"A", "B", "C">> \o [i \in 1..78 |-> "9"])

Window(ch) == <<ch.start, ch.index, ch.count, ch.next_count>>

\* C18: start and index are changed only by create, which advances the
\* cursor once per call; subscribe, changeMode and getRoot leave start,
\* index, count and next_count unchanged, and create leaves mode, side_key,
\* security and seed unchanged.
C18_FrameOfEachCall ==
    [][/\ op' # "create" => Window(state'.channel) = Window(state.channel)
       /\ op' = "create" =>
            /\ Window(state'.channel) = Window(Advance(state.channel))
            /\ Len(used') = Len(used) + 1
            /\ state'.channel.mode = state.channel.mode
            /\ state'.channel.side_key = state.channel.side_key
            /\ state'.channel.security = state.channel.security
            /\ state'.seed = state.seed]_vars

\* an accepted changeMode on a channel whose cursor has moved within a tree
C18_Witness ==
    /\ op = "changeMode"
    /\ ret.returned = "state"
    /\ state.channel.mode = "restricted"
    /\ state.channel.index > 0
    /\ used # <<>>

\* C20: channel.mode is always one of public, private, restricted, and a
\* restricted channel always holds a side key.
C20_ModeValidAndRestrictedHasKey ==
    /\ state.channel.mode \in {"public", "private", "restricted"}
    /\ state.channel.mode = "restricted" => state.channel.side_key # Null

\* a restricted channel with a padded string key, after a rejected call
C20_Witness ==
    /\ state.channel.mode = "restricted"
    /\ state.channel.side_key.tag = "string"
    /\ op = "changeMode"
    /\ ret.mode = "bogus"

----------------------------------------------------------------------------
(* Order of the reads of one traversal *)

\* reads issued and not yet settled
InFlight ==
    IF fpc = "await" THEN Len(reads) - Len(messages)
    ELSE IF fpc \in {"done", "failed"} THEN Len(reads) - Len(messages) - 1
    ELSE Len(reads)

\* C17: within one traversal the read of root n+1 is issued only after the
\* read of root n has returned a message, its payload has been appended and
\* the callback, when given, has been invoked with it; two reads are never
\* in flight together, and the callback is invoked once per message, in
\* chain order.
C17_ReadsStrictlySequential ==
    fpc # "idle" =>
        /\ InFlight \in {0, 1}
        /\ fpc = "await" => InFlight = 1
        /\ reads # <<>> => reads[1] = fargs.root
        /\ \A i \in 2..Len(reads) :
              /\ ReaderNext(ledger, reads[i - 1]).kind = "msg"
              /\ reads[i] = ReaderNext(ledger, reads[i - 1]).nextRoot
              /\ i - 1 <= Len(messages)
              /\ messages[i - 1] = ReaderNext(ledger, reads[i - 1]).payload
        /\ cbLog = IF fargs.callback THEN messages ELSE <<>>

\* the third read of a traversal with a callback is in flight, two messages
\* appended and handed to the callback
C17_Witness ==
    /\ fpc = "await"
    /\ fargs.callback
    /\ Len(reads) = 3
    /\ Len(cbLog) = 2
    /\ cbLog[1] # cbLog[2]

----------------------------------------------------------------------------
(* attach, lines 224-241 *)

DefaultDepth == 3
DefaultMwm == 9

Depths == {DefaultDepth, 4}
Mwms == {DefaultMwm, 14}
LedgerErrors == {"E1", "E2"}

\* '9'.repeat(81), line 235
NullSeed == [i \in 1..KeyLen |-> "9"]

\* `failed to attach message: ${e}`, line 239
Wrapped(e) == <<"failed to attach message: ", e>>

\* what prepareTransfers resolves with for the transfers it is given
Prepared(transfers) == <<"trytes", transfers>>

\* lines 225-235: attach builds the transfer and awaits prepareTransfers
AttachCall ==
    /\ apc = "idle"
    /\ \E trytes \in Messages, root \in Roots, depth \in Depths, mwm \in Mwms :
        aargs' = [seed      |-> NullSeed,
                  transfers |-> <<[address |-> root, value |-> 0,
                                   message |-> trytes]>>,
                  depth     |-> depth,
                  mwm       |-> mwm]
    /\ apc' = "prepare"
    /\ UNCHANGED aret

\* lines 235-237: prepareTransfers resolves; attach calls sendTrytes and
\* returns its promise, which leaves the try block before it is settled
PrepareResolves ==
    /\ apc = "prepare"
    /\ apc' = "send"
    /\ UNCHANGED <<aargs, aret>>

\* lines 235-239: prepareTransfers rejects inside the try block; the catch
\* block throws the wrapped error
PrepareRejects ==
    /\ apc = "prepare"
    /\ \E e \in LedgerErrors :
        aret' = [outcome |-> "rejected", failedIn |-> "prepareTransfers",
                 raised |-> e, value |-> Wrapped(e)]
    /\ apc' = "done"
    /\ UNCHANGED aargs

\* line 237: the promise of sendTrytes resolves, and with it attach's
SendResolves ==
    /\ apc = "send"
    /\ aret' = [outcome |-> "resolved", failedIn |-> "nothing", raised |-> "",
                value |-> <<"sent", Prepared(aargs.transfers), aargs.depth,
                            aargs.mwm>>]
    /\ apc' = "done"
    /\ UNCHANGED aargs

\* line 237: the promise of sendTrytes rejects after attach has returned
\* it; no catch block is around it any more, attach's promise rejects with
\* the same error
SendRejects ==
    /\ apc = "send"
    /\ \E e \in LedgerErrors :
        aret' = [outcome |-> "rejected", failedIn |-> "sendTrytes",
                 raised |-> e, value |-> <<"raw", e>>]
    /\ apc' = "done"
    /\ UNCHANGED aargs

InitAttach ==
    /\ ChannelFresh
    /\ ReasmIdle
    /\ FetchIdle
    /\ AttachIdle
    /\ SingleIdle
    /\ ListenIdle

NextAttach ==
    \/ AttachCall /\ UNCHANGED <<chanVars, reasmVars, fetchVars, singleVars, listenVars>>
    \/ PrepareResolves /\ UNCHANGED <<chanVars, reasmVars, fetchVars, singleVars, listenVars>>
    \/ PrepareRejects /\ UNCHANGED <<chanVars, reasmVars, fetchVars, singleVars, listenVars>>
    \/ SendResolves /\ UNCHANGED <<chanVars, reasmVars, fetchVars, singleVars, listenVars>>
    \/ SendRejects /\ UNCHANGED <<chanVars, reasmVars, fetchVars, singleVars, listenVars>>

SpecAttach == InitAttach /\ [][NextAttach]_vars

\* C13: any failure of the ledger submission inside attach, in
\* prepareTransfers or in sendTrytes, reaches the caller as the wrapped
\* 'failed to attach message' error, never as the raw ledger error and
\* never as a success.
C13_SubmissionFailureWrapped ==
    (apc = "done" /\ aret.failedIn # "nothing") =>
        /\ aret.outcome = "rejected"
        /\ aret.value = Wrapped(aret.raised)

----------------------------------------------------------------------------
(* decode, lines 121-124, and fetchSingle, lines 159-180 *)

\* the payloads that reach fetchSingle: two the codec can unmask, one it
\* cannot
Candidates == {<<"GOOD1">>, <<"GOOD2">>, <<"BAD">>}
Decodable == {<<"GOOD1">>, <<"GOOD2">>}

\* the hashes findTransactions can resolve with and the bundle of the
\* transaction behind each
HashAt == <<"H1", "H2", "H3", "H4">>
BundleAt == <<"B1", "B2", "B3", "B4">>

\* what getTransactionObjects(hashes) can resolve with: one transaction per
\* hash, each the first fragment of a bundle of its own
TxObjects(hashes) ==
    {txs \in [1..Len(hashes) ->
                [bundle : {BundleAt[i] : i \in 1..Len(hashes)},
                 signatureMessageFragment : Candidates,
                 currentIndex : {0},
                 lastIndex : 0..MaxLastIndex]] :
        \A i \in 1..Len(hashes) : txs[i].bundle = BundleAt[i]}

\* lines 219-221 of txHashesToMessages: the payloads of objs.map(processTx)
\* that are not undefined
MessagesGen(txs, eng) ==
    LET kept == Filter(MapProcessTx(<<>>, txs, 1, eng))
    IN  [i \in 1..Len(kept) |-> kept[i].payload]

\* Mam.decodeMessage(payload, key, root): the unmasked message, or a throw
MamDecodeMessage(payload, key, root) ==
    IF payload \in Decodable
    THEN [threw |-> FALSE,
          value |-> [payload |-> <<"plain", payload>>, next_root |-> root + 1]]
    ELSE [threw |-> TRUE, value |-> Undefined]

\* decode: pads the key and calls Mam.decodeMessage; the arrow function has
\* a block body with no return statement, so what it returns is undefined
Decode(payload, sidekey, root) ==
    LET key == PadKey(sidekey)
        unmasked == MamDecodeMessage(payload, key, root)
    IN  [threw |-> unmasked.threw, value |-> Undefined]

\* const { payload, next_root } = v, line 173: a TypeError when v is
\* undefined or null
DestructureThrows(v) ==
    IF v = Undefined THEN TRUE ELSE IF v = Null THEN TRUE ELSE FALSE

\* hash(root, rounds), lines 244-251: the digest of root after rounds || 81
\* rounds; a root as it stands counts as hashed zero times
HashOfRoot(root, rounds) ==
    [of |-> root, rounds |-> IF rounds = 0 THEN HashRounds ELSE rounds]

\* lines 160-163
LookupAddress(root, mode, rounds) ==
    IF mode = "private" \/ mode = "restricted"
    THEN HashOfRoot(root, rounds)
    ELSE [of |-> root, rounds |-> 0]

\* lines 159-167: fetchSingle derives the address and awaits findTransactions
FetchSingleCall ==
    /\ spc = "idle"
    /\ \E root \in Roots, mode \in {"public", "private", "restricted"},
          sidekey \in ChannelKeys :
        sargs' = [root |-> root, mode |-> mode, sidekey |-> sidekey,
                  address |-> LookupAddress(root, mode, HashRounds)]
    /\ spc' = "find"
    /\ UNCHANGED <<shashes, sgen, scands, si, sret, slog>>

\* lines 165-169 and 193-216: findTransactions resolves with hashes;
\* fetchSingle calls txHashesToMessages(hashes), which calls
\* getTransactionObjects(hashes) and awaits it; fetchSingle awaits the
\* promise of txHashesToMessages
FindResolves ==
    /\ spc = "find"
    /\ \E n \in 0..MaxCands : shashes' = SubSeq(HashAt, 1, n)
    /\ spc' = "objs"
    /\ UNCHANGED <<sargs, sgen, scands, si, sret, slog>>

\* line 165 is outside the try of line 171: findTransactions rejects and so
\* does the promise of fetchSingle, with the same error; nothing is logged
FindRejects ==
    /\ spc = "find"
    /\ \E e \in LedgerErrors : sret' = [returned |-> "rejected", raised |-> e]
    /\ spc' = "done"
    /\ UNCHANGED <<sargs, shashes, sgen, scands, si, slog>>

\* lines 216-221: getTransactionObjects resolves with objs;
\* txHashesToMessages maps and filters them and its promise resolves
ObjectsResolve ==
    /\ spc = "objs"
    /\ \E txs \in TxObjects(shashes) :
        sgen' = [settled |-> "resolved", value |-> MessagesGen(txs, engine)]
    /\ spc' = "gen"
    /\ UNCHANGED <<sargs, shashes, scands, si, sret, slog>>

\* line 216: getTransactionObjects rejects and so does the promise of
\* txHashesToMessages
ObjectsReject ==
    /\ spc = "objs"
    /\ \E e \in LedgerErrors : sgen' = [settled |-> "rejected", raised |-> e]
    /\ spc' = "gen"
    /\ UNCHANGED <<sargs, shashes, scands, si, sret, slog>>

\* lines 169-170: fetchSingle resumes with messagesGen and enters the loop
CandidatesReady ==
    /\ spc = "gen"
    /\ sgen.settled = "resolved"
    /\ scands' = sgen.value
    /\ spc' = "loop"
    /\ UNCHANGED <<sargs, shashes, sgen, si, sret, slog>>

\* line 169 is outside the try of line 171: fetchSingle resumes with the
\* rejection of txHashesToMessages and rejects with the same error
CandidatesRejected ==
    /\ spc = "gen"
    /\ sgen.settled = "rejected"
    /\ sret' = [returned |-> "rejected", raised |-> sgen.raised]
    /\ spc' = "done"
    /\ UNCHANGED <<sargs, shashes, sgen, scands, si, slog>>

\* lines 170-178: one round of the loop over messagesGen
TryCandidate ==
    /\ spc = "loop"
    /\ si < Len(scands)
    /\ LET message == scands[si + 1]
           d == Decode(message, sargs.sidekey, sargs.root)
       IN  IF d.threw \/ DestructureThrows(d.value)
           THEN /\ slog' = Append(slog, message)
                /\ si' = si + 1
                /\ UNCHANGED <<spc, sret>>
           ELSE /\ sret' = [returned |-> "message",
                            payload  |-> d.value.payload,
                            nextRoot |-> d.value.next_root]
                /\ spc' = "done"
                /\ UNCHANGED <<si, slog>>
    /\ UNCHANGED <<sargs, shashes, sgen, scands>>

\* lines 179-180: the loop is over and the function ends without a return
LoopExhausted ==
    /\ spc = "loop"
    /\ si = Len(scands)
    /\ sret' = [returned |-> "undefined"]
    /\ spc' = "done"
    /\ UNCHANGED <<sargs, shashes, sgen, scands, si, slog>>

InitSingle ==
    /\ ChannelFresh
    /\ ReasmIdle
    /\ FetchIdle
    /\ AttachIdle
    /\ SingleIdle
    /\ ListenIdle

NextSingle ==
    \/ FetchSingleCall /\ UNCHANGED <<chanVars, reasmVars, fetchVars, attachVars, listenVars>>
    \/ FindResolves /\ UNCHANGED <<chanVars, reasmVars, fetchVars, attachVars, listenVars>>
    \/ FindRejects /\ UNCHANGED <<chanVars, reasmVars, fetchVars, attachVars, listenVars>>
    \/ ObjectsResolve /\ UNCHANGED <<chanVars, reasmVars, fetchVars, attachVars, listenVars>>
    \/ ObjectsReject /\ UNCHANGED <<chanVars, reasmVars, fetchVars, attachVars, listenVars>>
    \/ CandidatesReady /\ UNCHANGED <<chanVars, reasmVars, fetchVars, attachVars, listenVars>>
    \/ CandidatesRejected /\ UNCHANGED <<chanVars, reasmVars, fetchVars, attachVars, listenVars>>
    \/ TryCandidate /\ UNCHANGED <<chanVars, reasmVars, fetchVars, attachVars, listenVars>>
    \/ LoopExhausted /\ UNCHANGED <<chanVars, reasmVars, fetchVars, attachVars, listenVars>>

SpecSingle == InitSingle /\ [][NextSingle]_vars

\* the first candidate the codec can unmask, 0 when there is none
RECURSIVE FirstDecodable(_, _)
FirstDecodable(c, i) ==
    IF i > Len(c) THEN 0
    ELSE IF c[i] \in Decodable THEN i
    ELSE FirstDecodable(c, i + 1)

\* C19: fetchSingle tries the candidate payloads in order, skips each one
\* whose decode fails and returns the payload and nextRoot of the first
\* that decodes; it returns nothing only when no candidate decodes.  The
\* candidates exist once the two ledger lookups have succeeded.
C19_FirstDecodableReturned ==
    (spc = "done" /\ sret.returned # "rejected") =>
        LET f == FirstDecodable(scands, 1)
        IN  IF f = 0
            THEN sret.returned = "undefined" /\ slog = scands
            ELSE /\ sret.returned = "message"
                 /\ sret.payload =
                        MamDecodeMessage(scands[f], PadKey(sargs.sidekey),
                                         sargs.root).value.payload
                 /\ sret.nextRoot =
                        MamDecodeMessage(scands[f], PadKey(sargs.sidekey),
                                         sargs.root).value.next_root
                 /\ slog = SubSeq(scands, 1, f - 1)

----------------------------------------------------------------------------
(* listen, lines 182-189 *)

\* a ledger whose messages form the chain 0 -> 1 -> 2 -> ...
ChainLedgers == {l \in Ledgers :
                    \A r \in Roots : l[r].kind = "msg" => l[r].nextRoot = r + 1}

Published(r) == [kind |-> "msg", payload |-> PayloadAt[r + 1], nextRoot |-> r + 1]

\* what fetch has handed the timer callback before it returns
NoResp == [defined |-> FALSE, messages |-> <<>>, nextRoot |-> 0]

\* what becomes of the process when the promise of a timer callback, which
\* nobody holds, has rejected and the runtime comes to handle it: Node 15
\* and later end the process unless the embedder handles or downgrades
\* unhandled rejections, older releases only warn
UnhandledRejection == {"exited", "running"}

\* the process runs JavaScript: "rejected" while an unhandled rejection
\* waits for the microtask queue to drain
Alive == proc \in {"running", "rejected"}

\* lines 183-188: listen reads channel.root and arms one timer of
\* channel.timeout milliseconds
Listen ==
    /\ Alive
    /\ Len(polls) < MaxListens
    /\ polls' = Append(polls, [pc       |-> "timer",
                               delay    |-> sub.timeout,
                               root     |-> sub.root,
                               nextRoot |-> sub.root,
                               messages |-> <<>>,
                               resp     |-> NoResp])
    /\ UNCHANGED <<sub, pollLog, delivered, proc, ledger>>

\* lines 184-185 and 126-128: the timer fires, its callback calls
\* fetch(root), which awaits createContext(); timers run only once the
\* runtime has dealt with the rejections of the job before
TimerFires(i) ==
    /\ proc = "running"
    /\ polls[i].pc = "timer"
    /\ polls' = [polls EXCEPT ![i].pc = "ctx",
                              ![i].nextRoot = polls[i].root,
                              ![i].messages = <<>>]
    /\ pollLog' = Append(pollLog, [listener |-> i, root |-> polls[i].root])
    /\ UNCHANGED <<sub, delivered, proc, ledger>>

\* lines 128-137 of the callback's fetch
PollContextReady(i) ==
    /\ Alive
    /\ polls[i].pc = "ctx"
    /\ polls' = [polls EXCEPT ![i].pc = "await"]
    /\ UNCHANGED <<sub, pollLog, delivered, proc, ledger>>

\* lines 137-151 of the callback's fetch: a message, and round again
PollReaderMessage(i) ==
    /\ Alive
    /\ polls[i].pc = "await"
    /\ Len(polls[i].messages) < MaxMessages
    /\ ReaderNext(ledger, polls[i].nextRoot).kind = "msg"
    /\ LET b == LoopBody(ReaderNext(ledger, polls[i].nextRoot),
                         polls[i].messages, polls[i].nextRoot, <<>>, FALSE)
       IN  polls' = [polls EXCEPT ![i].nextRoot = b.nextRoot,
                                  ![i].messages = b.messages]
    /\ UNCHANGED <<sub, pollLog, delivered, proc, ledger>>

\* lines 137-152 of the callback's fetch: no message, the loop ends and
\* fetch returns { messages, nextRoot }; the timer callback, suspended at
\* the await of line 185, resumes in a later job
PollReaderNothing(i) ==
    /\ Alive
    /\ polls[i].pc = "await"
    /\ ReaderNext(ledger, polls[i].nextRoot).kind = "none"
    /\ polls' = [polls EXCEPT ![i].pc = "returned",
                              ![i].resp = [defined  |-> TRUE,
                                           messages |-> polls[i].messages,
                                           nextRoot |-> polls[i].nextRoot]]
    /\ UNCHANGED <<sub, pollLog, delivered, proc, ledger>>

\* lines 153-154 of the callback's fetch: the reader rejects, fetch logs
\* the error and returns what console.error returns, undefined
PollReaderRejects(i) ==
    /\ Alive
    /\ polls[i].pc = "await"
    /\ ReaderNext(ledger, polls[i].nextRoot).kind = "throw"
    /\ polls' = [polls EXCEPT ![i].pc = "returned", ![i].resp = NoResp]
    /\ UNCHANGED <<sub, pollLog, delivered, proc, ledger>>

\* lines 185-187: the timer callback resumes with resp, stores
\* resp.nextRoot in root and calls callback(resp.messages)
PollCallbackResumes(i) ==
    /\ Alive
    /\ polls[i].pc = "returned"
    /\ polls[i].resp.defined
    /\ polls' = [polls EXCEPT ![i].pc = "done",
                              ![i].root = polls[i].resp.nextRoot]
    /\ delivered' = Append(delivered, [listener |-> i,
                                       messages |-> polls[i].resp.messages,
                                       nextRoot |-> polls[i].resp.nextRoot])
    /\ UNCHANGED <<sub, pollLog, proc, ledger>>

\* lines 185-186: the timer callback resumes with resp undefined,
\* resp.nextRoot throws a TypeError and the promise of the callback rejects
\* unhandled; the jobs already queued still run before the runtime reacts
PollCallbackThrows(i) ==
    /\ Alive
    /\ polls[i].pc = "returned"
    /\ ~polls[i].resp.defined
    /\ polls' = [polls EXCEPT ![i].pc = "failed"]
    /\ proc' = "rejected"
    /\ UNCHANGED <<sub, pollLog, delivered, ledger>>

\* the microtask queue is drained and the runtime handles the rejection
\* of the timer callback's promise: the process ends, or is told and goes on
RejectionHandled ==
    /\ proc = "rejected"
    /\ proc' \in UnhandledRejection
    /\ UNCHANGED <<sub, polls, pollLog, delivered, ledger>>

\* the publisher, another process, attaches the next message of the chain
Publish ==
    /\ \E r \in Roots :
        /\ ledger[r].kind = "none"
        /\ ledger' = [ledger EXCEPT ![r] = Published(r)]
    /\ UNCHANGED <<sub, polls, pollLog, delivered, proc>>

\* the caller deactivates the subscription
Deactivate ==
    /\ Alive
    /\ sub.active
    /\ sub' = [sub EXCEPT !.active = FALSE]
    /\ UNCHANGED <<polls, pollLog, delivered, proc, ledger>>

\* a step of a timer or of a pending continuation
PollStep ==
    \E i \in DOMAIN polls :
        \/ TimerFires(i)
        \/ PollContextReady(i)
        \/ PollReaderMessage(i)
        \/ PollReaderNothing(i)
        \/ PollReaderRejects(i)
        \/ PollCallbackResumes(i)
        \/ PollCallbackThrows(i)

fetchLocals == <<fpc, fargs, nextRoot, messages, hasMessage, fret, cbLog, reads>>
listenFrame == <<chanVars, reasmVars, fetchLocals, attachVars, singleVars>>

InitListen ==
    /\ ChannelFresh
    /\ ReasmIdle
    /\ AttachIdle
    /\ SingleIdle
    /\ ledger \in ChainLedgers
    /\ fpc = "idle"
    /\ fargs = <<>>
    /\ nextRoot = 0
    /\ messages = <<>>
    /\ hasMessage = FALSE
    /\ fret = [returned |-> "none"]
    /\ cbLog = <<>>
    /\ reads = <<>>
    /\ \E r \in Roots, k \in ChannelKeys :
        sub = Subscribe(InitState("SEED"), r, k).subscribed[r]
    /\ polls = <<>>
    /\ pollLog = <<>>
    /\ delivered = <<>>
    /\ proc = "running"

NextListen ==
    \/ Listen /\ UNCHANGED listenFrame
    \/ (\E i \in DOMAIN polls : TimerFires(i)) /\ UNCHANGED listenFrame
    \/ (\E i \in DOMAIN polls : PollContextReady(i)) /\ UNCHANGED listenFrame
    \/ (\E i \in DOMAIN polls : PollReaderMessage(i)) /\ UNCHANGED listenFrame
    \/ (\E i \in DOMAIN polls : PollReaderNothing(i)) /\ UNCHANGED listenFrame
    \/ (\E i \in DOMAIN polls : PollReaderRejects(i)) /\ UNCHANGED listenFrame
    \/ (\E i \in DOMAIN polls : PollCallbackResumes(i)) /\ UNCHANGED listenFrame
    \/ (\E i \in DOMAIN polls : PollCallbackThrows(i)) /\ UNCHANGED listenFrame
    \/ RejectionHandled /\ UNCHANGED listenFrame
    \/ Publish /\ UNCHANGED listenFrame
    \/ Deactivate /\ UNCHANGED listenFrame

SpecListen == InitListen /\ [][NextListen]_vars

\* every armed timer fires, every pending continuation of a poll runs and
\* the runtime handles every unhandled rejection; nothing obliges the
\* caller to call listen or the publisher to publish
FairSpecListen ==
    /\ SpecListen
    /\ WF_vars(PollStep /\ UNCHANGED listenFrame)
    /\ WF_vars(RejectionHandled /\ UNCHANGED listenFrame)

----------------------------------------------------------------------------
(* Properties of the poll driver *)

StartedBy(i) == Len(SelectSeq(pollLog, LAMBDA e : e.listener = i))
CompletedBy(i) == Len(SelectSeq(delivered, LAMBDA e : e.listener = i))
LastStartOf(i) ==
    LET mine == SelectSeq(pollLog, LAMBDA e : e.listener = i)
    IN  IF mine = <<>> THEN -1 ELSE mine[Len(mine)].root
LastResultOf(i) ==
    LET mine == SelectSeq(delivered, LAMBDA e : e.listener = i)
    IN  IF mine = <<>> THEN -1 ELSE mine[Len(mine)].nextRoot

\* C14: after listen(subscription, callback) polling recurs: each completed
\* poll is eventually followed by another poll that resumes from the
\* nextRoot the previous poll returned.
C14_PollingRecurs ==
    \A i \in 1..MaxListens :
        (sub.active /\ CompletedBy(i) >= 1)
            ~> (\/ ~sub.active
                \/ /\ StartedBy(i) > CompletedBy(i)
                   /\ LastStartOf(i) = LastResultOf(i))

\* polls whose fetch has been called and has not returned
InFlightPolls == {i \in DOMAIN polls : polls[i].pc \in {"ctx", "await"}}

\* C15: for one subscription at most one poll traversal is in flight at any
\* time, under any interleaving of listen calls, timer firings and fetch
\* completions.
C15_AtMostOnePollInFlight == Cardinality(InFlightPolls) <= 1

\* C16: the poll driver checks the subscription's active flag before it
\* starts a poll: once active is false no new poll traversal is started.
C16_NoPollOnceInactive ==
    [][~sub.active => pollLog' = pollLog]_vars

====
